---- MODULE Spec2Model ----
(***************************************************************************)
(* eduOS, arch/x86 APIC bring-up (src/unnamed/part_000): discovery of the  *)
(* MP configuration table (apic_probe), the local APIC timer               *)
(* (apic_calibration, apic_enable_timer, apic_disable_timer, lapic_reset)  *)
(* and the I/O APIC redirection table (ioapic_inton, ioapic_intoff).       *)
(*                                                                         *)
(* 32-bit quantities are kept at their width as a pair of 16-bit halves    *)
(* [hi, lo], because the model checker's integers are narrower than        *)
(* uint32_t.                                                               *)
(***************************************************************************)
EXTENDS Integers, Sequences, FiniteSets, TLC

\* ------------------------------------------------------------------------
\* uint32_t as two 16-bit halves
\* ------------------------------------------------------------------------
HALF == 65536

W(h, l) == [hi |-> h, lo |-> l]

ZERO32 == W(0, 0)

\* 0xFFFFFFFFUL
MAX32 == W(HALF - 1, HALF - 1)

\* a - b modulo 2^32
Sub32(a, b) ==
    IF a.lo >= b.lo
    THEN W((a.hi - b.hi + HALF) % HALF, a.lo - b.lo)
    ELSE W((a.hi - b.hi - 1 + HALF) % HALF, a.lo + HALF - b.lo)

\* a / d, unsigned, for a small divisor d
Div32(a, d) == W(a.hi \div d, ((a.hi % d) * HALF + a.lo) \div d)

\* bits [s, s+n) of a 16-bit half x
GetBits(x, s, n) == (x \div (2 ^ s)) % (2 ^ n)

\* the half x with bits [s, s+n) replaced by v (v truncated to n bits, as a
\* bit-field assignment does)
PutBits(x, s, n, v) == x - GetBits(x, s, n) * (2 ^ s) + (v % (2 ^ n)) * (2 ^ s)

\* ------------------------------------------------------------------------
\* Constants of the program
\* ------------------------------------------------------------------------
MAX_CORES == 1

EINVAL == 22

ENXIO == 6

NULL == 0

\* I/O APIC register numbers
IOAPIC_REG_VER == 1

IOAPIC_REG_TABLE == 16

\* the fixed virtual windows apic_probe maps the two controllers to
LAPIC_WINDOW == 589824

IOAPIC_WINDOW == 593920

\* ------------------------------------------------------------------------
\* State
\* ------------------------------------------------------------------------
VARIABLES
    \* file-scope variables of the program
    apic_processors,    \* [0..MAX_CORES-1 -> address of a processor entry, or NULL]
    boot_processor,
    apic_mp,            \* NULL, or the address of the floating pointer record
    apic_config,        \* NULL, or the address of the configuration table
    lapic,
    ioapic,
    icr,                \* uint32_t, as halves
    ncores,
    irq_redirect,       \* [0..15 -> uint8_t]
    initialized,
    lapic_backend,      \* which pair lapic_read/lapic_write points to
    \* firmware and hardware
    firmware,           \* what the BIOS left in memory: floating pointer, table header, entry stream
    cpu,                \* what cpuid reports: has_apic(), has_x2apic()
    ioregsel,           \* ioapic->reg
    ioregs,             \* the I/O APIC registers behind ioapic->data
    lapic_regs,         \* the local APIC registers
    pagemap,            \* virtual page -> physical page, set by page_map
    timer_ticks,        \* what get_clock_tick returns
    if_flag,            \* interrupt delivery on the executing core
    pic_mask,           \* last byte written to the two PIC mask ports
    \* the position of the boot processor and the locals of the running function
    pc,
    addr,
    i,
    count,
    isa_bus,
    old,
    ticks,
    flags,
    ptr,                \* search_apic's scan offset
    ptr_old,            \* the page search_apic mapped last, or 0
    window,             \* which of apic_probe's calls of search_apic runs
    \* history
    call,               \* the call that returned last
    ncalls,             \* how many calls of the I/O APIC and timer interface returned
    visited,            \* per pass of apic_probe, the addresses whose type byte was read
    calib_read          \* apic_calibration's last read of APIC_CCR: value, tick count then, tick count at the edge

statics == <<apic_processors, boot_processor, apic_mp, apic_config, lapic, ioapic,
             icr, ncores, irq_redirect, initialized, lapic_backend>>

ioapic_hw == <<ioregsel, ioregs>>

other_hw == <<lapic_regs, pagemap, timer_ticks, if_flag, pic_mask>>

locals == <<addr, i, count, isa_bus, old, ticks, flags>>

scan == <<ptr, ptr_old, window>>

vars == <<statics, firmware, cpu, ioapic_hw, other_hw, pc, locals, scan, call, ncalls,
          visited, calib_read>>

\* A returned call: the function, its two arguments, its return value and, for
\* the I/O APIC functions, the two words handed to ioapic_write.
Call(op, a1, a2, ret, lo, hi) ==
    [op |-> op, a1 |-> a1, a2 |-> a2, ret |-> ret, lo |-> lo, hi |-> hi]

NoCall == Call("none", 0, 0, 0, ZERO32, ZERO32)

\* static uint8_t irq_redirect[16] = {0, 1, ..., 0xF}
IdentityRedirect == [k \in 0..15 |-> k]

\* a store into a table kept as a function that grows with its first stores
Store(f, k, v) == (k :> v) @@ f

\* ------------------------------------------------------------------------
\* Firmware: the MP configuration table
\* ------------------------------------------------------------------------
CpuEntry(id, f) == [type |-> 0, id |-> id, cpu_flags |-> f]

BusEntry(bus_id, name) == [type |-> 1, bus_id |-> bus_id, name |-> name]

IoApicEntry(a) == [type |-> 2, addr |-> a]

IoIntEntry(src_bus, src_irq, dest_intin) ==
    [type |-> 3, src_bus |-> src_bus, src_irq |-> src_irq, dest_intin |-> dest_intin]

UnknownEntry == [type |-> 4]

\* the length an entry occupies in the table: 20 bytes for a processor
\* entry, 8 bytes for every other kind
EntryLen(e) == IF e.type = 0 THEN 20 ELSE 8

RECURSIVE StreamLen(_)
\* the bytes a sequence of entries occupies
StreamLen(es) == IF es = <<>> THEN 0 ELSE EntryLen(Head(es)) + StreamLen(Tail(es))

\* ------------------------------------------------------------------------
\* ioapic_route_t: the redirection entry as two 32-bit words, with the
\* bit-fields the functions assign.  (Bit positions of the 82093AA entry:
\* vector 0-7, delivery mode 8-10, destination mode 11, polarity 13,
\* trigger 15, mask 16, destination 56-63.)
\* ------------------------------------------------------------------------
set_vector(w, v) == [w EXCEPT !.lo = PutBits(@, 0, 8, v)]

set_delivery_mode(w, v) == [w EXCEPT !.lo = PutBits(@, 8, 3, v)]

set_dest_mode(w, v) == [w EXCEPT !.lo = PutBits(@, 11, 1, v)]

set_polarity(w, v) == [w EXCEPT !.lo = PutBits(@, 13, 1, v)]

set_trigger(w, v) == [w EXCEPT !.lo = PutBits(@, 15, 1, v)]

set_mask(w, v) == [w EXCEPT !.hi = PutBits(@, 0, 1, v)]

set_physical_dest(w, v) == [w EXCEPT !.hi = PutBits(@, 8, 8, v)]

get_vector(w) == GetBits(w.lo, 0, 8)

get_mask(w) == GetBits(w.hi, 0, 1)

get_physical_dest(w) == GetBits(w.hi, 8, 8)

\* "ioapic_route_t route;" is an automatic variable without initializer: its
\* content before the assignments is whatever the stack holds.
StackWords == {ZERO32, MAX32}

StackRoutes == [lower : StackWords, upper : StackWords]

\* ------------------------------------------------------------------------
\* ioapic_inton / ioapic_intoff
\* ------------------------------------------------------------------------
\* a variant of the range check that lets line 25 through
irq_too_high_late(irq) == irq > 25

\* if (BUILTIN_EXPECT(irq > 24, 0)) return -EINVAL;
irq_too_high(irq) == irq > 24

\* off = irq < 16 ? irq_redirect[irq]*2 : irq*2
route_off(redirect, irq) == IF irq < 16 THEN redirect[irq] * 2 ELSE irq * 2

\* route.lower.bitfield.vector = 0x20+irq
route_vector(redirect, irq) == 32 + irq

\* a variant of the enable route that leaves the mask bit set
inton_route_masked(redirect, irq, apicid, route) ==
    [lower |-> set_mask(set_vector(route.lower, route_vector(redirect, irq)), 1),
     upper |-> set_physical_dest(route.upper, apicid)]

\* the #else branch of ioapic_inton, applied to the uninitialized route
inton_route(redirect, irq, apicid, route) ==
    [lower |-> set_mask(
                 set_vector(
                   set_trigger(
                     set_polarity(
                       set_delivery_mode(
                         set_mask(set_dest_mode(route.lower, 0), 0),
                         0),
                       0),
                     0),
                   route_vector(redirect, irq)),
                 0),
     upper |-> set_physical_dest(route.upper, apicid)]

\* the #else branch of ioapic_intoff, applied to the uninitialized route
intoff_route(redirect, irq, apicid, route) ==
    [lower |-> set_mask(
                 set_vector(
                   set_trigger(
                     set_polarity(
                       set_delivery_mode(
                         set_mask(set_dest_mode(route.lower, 0), 0),
                         0),
                       0),
                     0),
                   route_vector(redirect, irq)),
                 1),
     upper |-> set_physical_dest(route.upper, apicid)]

\* ioapic_write(reg, value): ioapic->reg = reg; ioapic->data = value
ioapic_write(regs, reg, value) == Store(regs, reg, value)

\* ioapic_write(IOAPIC_REG_TABLE+off, route.lower.whole);
\* ioapic_write(IOAPIC_REG_TABLE+1+off, route.dest.upper);
write_route(regs, off, route) ==
    ioapic_write(ioapic_write(regs, IOAPIC_REG_TABLE + off, route.lower),
                 IOAPIC_REG_TABLE + 1 + off, route.upper)

\* The body of ioapic_inton(irq, apicid) on the discovered controller.
\* ioapic->reg ends at the register the last ioapic_read selected.
InTonMapped(irq, apicid) ==
    \E stack \in StackRoutes :
        LET off == route_off(irq_redirect, irq)
            route == inton_route(irq_redirect, irq, apicid, stack)
        IN  /\ ioregs' = write_route(ioregs, off, route)
            /\ ioregsel' = IOAPIC_REG_TABLE + off
            /\ call' = Call("ioapic_inton", irq, apicid, 0, route.lower, route.upper)

\* The body of ioapic_intoff(irq, apicid) on the discovered controller.
InToffMapped(irq, apicid) ==
    \E stack \in StackRoutes :
        LET off == route_off(irq_redirect, irq)
            route == intoff_route(irq_redirect, irq, apicid, stack)
        IN  /\ ioregs' = write_route(ioregs, off, route)
            /\ ioregsel' = IOAPIC_REG_TABLE + 1 + off
            /\ call' = Call("ioapic_intoff", irq, apicid, 0, route.lower, route.upper)

\* With ioapic == NULL the accesses go through a null pointer: the kernel
\* either takes a page fault, or the stores land in low memory and the
\* function returns 0 without having touched the controller.
NullIoapic(op, irq, apicid) ==
    \/ /\ pc' = "fault"
       /\ UNCHANGED <<ioapic_hw, call, ncalls>>
    \/ /\ \E stack \in StackRoutes :
            LET route == IF op = "ioapic_inton"
                         THEN inton_route(irq_redirect, irq, apicid, stack)
                         ELSE intoff_route(irq_redirect, irq, apicid, stack)
            IN  call' = Call(op, irq, apicid, 0, route.lower, route.upper)
       /\ ncalls' = ncalls + 1
       /\ UNCHANGED <<ioapic_hw, pc>>

\* int ioapic_inton(uint8_t irq, uint8_t apicid)
ioapic_inton(irq, apicid) ==
    /\ pc = "idle"
    /\ \/ /\ irq_too_high(irq)
          /\ call' = Call("ioapic_inton", irq, apicid, -EINVAL, ZERO32, ZERO32)
          /\ ncalls' = ncalls + 1
          /\ UNCHANGED <<ioapic_hw, pc>>
       \/ /\ ~irq_too_high(irq)
          /\ ioapic # NULL
          /\ InTonMapped(irq, apicid)
          /\ ncalls' = ncalls + 1
          /\ UNCHANGED pc
       \/ /\ ~irq_too_high(irq)
          /\ ioapic = NULL
          /\ NullIoapic("ioapic_inton", irq, apicid)
    /\ UNCHANGED <<scan, statics, firmware, cpu, other_hw, locals, visited, calib_read>>

\* int ioapic_intoff(uint8_t irq, uint8_t apicid)
ioapic_intoff(irq, apicid) ==
    /\ pc = "idle"
    /\ \/ /\ irq_too_high(irq)
          /\ call' = Call("ioapic_intoff", irq, apicid, -EINVAL, ZERO32, ZERO32)
          /\ ncalls' = ncalls + 1
          /\ UNCHANGED <<ioapic_hw, pc>>
       \/ /\ ~irq_too_high(irq)
          /\ ioapic # NULL
          /\ InToffMapped(irq, apicid)
          /\ ncalls' = ncalls + 1
          /\ UNCHANGED pc
       \/ /\ ~irq_too_high(irq)
          /\ ioapic = NULL
          /\ NullIoapic("ioapic_intoff", irq, apicid)
    /\ UNCHANGED <<scan, statics, firmware, cpu, other_hw, locals, visited, calib_read>>

\* ------------------------------------------------------------------------
\* apic_probe
\* ------------------------------------------------------------------------
\* sizeof(apic_config_table_t), the header of the MP configuration table
CONFIG_TABLE_SIZE == 44

PAGE_SIZE == 4096

\* What the BIOS left in memory.  mp is the address of a floating pointer
\* record that passes search_apic's test (version <= 4, features[0] == 0), or
\* NULL when neither window holds one; config is its mp_config field, which
\* the BIOS aligns to 4 bytes.
Firmware(mp, config, signature, hdr_lapic, es) ==
    [mp |-> mp, config |-> config, signature |-> signature, lapic |-> hdr_lapic,
     entries |-> es]

\* apic_config->entry_count: the stream holds as many entries as the header
\* declares
entry_count == Len(firmware.entries)

\* if (addr % 4) addr += 4 - addr % 4;
AlignUp4(a) == IF a % 4 # 0 THEN a + (4 - (a % 4)) ELSE a

\* addr = (size_t) apic_config; addr += sizeof(apic_config_table_t); align
first_entry(config) == AlignUp4(config + CONFIG_TABLE_SIZE)

\* the address at which the k-th entry of the stream begins
EntryStart(k) == first_entry(firmware.config) + StreamLen(SubSeq(firmware.entries, 1, k - 1))

\* the entry the bytes at address a belong to; every address the two loops
\* reach is the first byte of an entry
EntryAt(a) == firmware.entries[CHOOSE k \in 1..entry_count : EntryStart(k) = a]

\* mp_bus->name[0] == 'I' && mp_bus->name[1] == 'S' && mp_bus->name[2] == 'A'
is_isa(name) == name[1] = "I" /\ name[2] = "S" /\ name[3] = "A"

\* the switch of the first loop: case 0 adds 20, case 1 leaves addr alone
\* (it breaks before reaching the default), every other type adds 8
pass1_next_addr(e, a) ==
    CASE e.type = 0 -> a + 20
      [] e.type = 1 -> a
      [] OTHER -> a + 8

\* case 1 of the first loop: isa_bus = i for a bus named ISA
pass1_isa_bus(e, idx, bus) == IF e.type = 1 /\ is_isa(e.name) THEN idx ELSE bus

\* (size_t) p & PAGE_MASK, as a page number
page_of(a) == a \div PAGE_SIZE

\* the page number of a 32-bit physical address
page_of32(w) == (w.hi * 16) + (w.lo \div PAGE_SIZE)

W32(n) == W(n \div HALF, n % HALF)

\* a variant of the slot assignment that ignores the usable bit
cpu_slot_keep_unusable(e, a) == a

\* apic_processors[i] = addr, then NULL again if cpu_flags bit 0 is clear
cpu_slot(e, a) == IF e.cpu_flags % 2 = 0 THEN NULL ELSE a

\* else if (apic_processors[i]->cpu_flags & 0x02) boot_processor = i
cpu_boot(e, idx, boot) ==
    IF e.cpu_flags % 2 = 1 /\ (e.cpu_flags \div 2) % 2 = 1 THEN idx ELSE boot

\* irq_redirect[extint->src_irq] = extint->dest_intin, for an index inside
\* the table
redirect_store(redirect, k, v) ==
    IF k \in DOMAIN redirect THEN [redirect EXCEPT ![k] = v] ELSE redirect

\* the same store for an index outside the table: it lands in whatever the
\* linker put behind irq_redirect.  Index 16 is the byte after the table,
\* where the next static, initialized, may lie; the values initialized can
\* have after the store
redirect_overrun(k, v, init) == IF k = 16 THEN {init, v} ELSE {init}

\* apic_mp = search_apic(0xF0000, 0x100000), then search_apic(0x9F000, 0xA0000)
search_apic == firmware.mp

\* apic_init calls apic_probe: lines 320-349, up to the first loop
ProbeEnter ==
    /\ pc = "boot"
    /\ IF search_apic = NULL
          \/ firmware.config = NULL
          \/ firmware.signature # "PCMP"
       THEN \* goto no_mp
            /\ apic_mp' = NULL
            /\ apic_config' = NULL
            /\ ncores' = 1
            /\ pc' = "check_lapic"
            /\ UNCHANGED <<addr, i>>
       ELSE /\ apic_mp' = search_apic
            /\ apic_config' = firmware.config
            /\ addr' = first_entry(firmware.config)
            /\ i' = 0
            /\ pc' = "pass1"
            /\ UNCHANGED ncores
    /\ isa_bus' = -1
    /\ UNCHANGED <<scan, apic_processors, boot_processor, lapic, ioapic, icr, irq_redirect,
                   initialized, lapic_backend, firmware, cpu, ioapic_hw, other_hw,
                   count, old, ticks, flags, call, ncalls, visited, calib_read>>

\* one iteration of the first loop (lines 352-369)
Pass1Step ==
    /\ pc = "pass1"
    /\ i < entry_count
    /\ LET e == EntryAt(addr)
       IN  /\ addr' = pass1_next_addr(e, addr)
           /\ isa_bus' = pass1_isa_bus(e, i, isa_bus)
    /\ i' = i + 1
    /\ visited' = [visited EXCEPT ![1] = @ \cup {addr}]
    /\ UNCHANGED <<scan, statics, firmware, cpu, ioapic_hw, other_hw, pc, count, old, ticks, flags,
                   call, ncalls, calib_read>>

\* the first loop ends; lines 371-376 set up the second
Pass1Done ==
    /\ pc = "pass1"
    /\ i >= entry_count
    /\ addr' = first_entry(apic_config)
    /\ i' = 0
    /\ count' = 0
    /\ pc' = "pass2"
    /\ UNCHANGED <<scan, statics, firmware, cpu, ioapic_hw, other_hw, isa_bus, old, ticks, flags,
                   call, ncalls, visited, calib_read>>

\* one iteration of the second loop (lines 376-407)
Pass2Step ==
    /\ pc = "pass2"
    /\ i < entry_count
    /\ LET e == EntryAt(addr)
       IN  CASE e.type = 0 ->
                 /\ IF i < MAX_CORES
                    THEN /\ apic_processors' = [apic_processors EXCEPT ![i] = cpu_slot(e, addr)]
                         /\ boot_processor' = cpu_boot(e, i, boot_processor)
                         /\ pagemap' = Store(pagemap, page_of(addr), page_of(addr))
                    ELSE UNCHANGED <<apic_processors, boot_processor, pagemap>>
                 /\ count' = count + 1
                 /\ addr' = addr + 20
                 /\ UNCHANGED <<ioapic, irq_redirect, initialized>>
             [] e.type = 2 ->
                 /\ pagemap' = Store(pagemap, page_of(IOAPIC_WINDOW), page_of32(e.addr))
                 /\ ioapic' = IOAPIC_WINDOW
                 /\ addr' = addr + 8
                 /\ UNCHANGED <<apic_processors, boot_processor, irq_redirect, count,
                                initialized>>
             [] e.type = 3 ->
                 /\ IF e.src_bus = isa_bus
                    THEN /\ irq_redirect' = redirect_store(irq_redirect, e.src_irq, e.dest_intin)
                         /\ initialized' \in redirect_overrun(e.src_irq, e.dest_intin, initialized)
                    ELSE UNCHANGED <<irq_redirect, initialized>>
                 /\ addr' = addr + 8
                 /\ UNCHANGED <<apic_processors, boot_processor, ioapic, pagemap, count>>
             [] OTHER ->
                 /\ addr' = addr + 8
                 /\ UNCHANGED <<apic_processors, boot_processor, ioapic, irq_redirect,
                                pagemap, count, initialized>>
    /\ i' = i + 1
    /\ visited' = [visited EXCEPT ![2] = @ \cup {addr}]
    /\ UNCHANGED <<scan, apic_mp, apic_config, lapic, icr, ncores, lapic_backend,
                   firmware, cpu, ioapic_hw, lapic_regs, timer_ticks, if_flag, pic_mask,
                   pc, isa_bus, old, ticks, flags, call, ncalls, calib_read>>

\* if (count > MAX_CORES) goto no_mp;
too_many_cores(n) == n > MAX_CORES

\* the second loop ends (lines 408-414); no_mp is lines 459-463
Pass2Done ==
    /\ pc = "pass2"
    /\ i >= entry_count
    /\ IF too_many_cores(count)
       THEN /\ apic_mp' = NULL
            /\ apic_config' = NULL
            /\ ncores' = 1
       ELSE /\ ncores' = count
            /\ UNCHANGED <<apic_mp, apic_config>>
    /\ pc' = "check_lapic"
    /\ UNCHANGED <<scan, apic_processors, boot_processor, lapic, ioapic, icr, irq_redirect,
                   initialized, lapic_backend, firmware, cpu, ioapic_hw, other_hw, locals,
                   call, ncalls, visited, calib_read>>

\* 0xFEE00000, the architectural address of the local APIC
LAPIC_DEFAULT == W(65248, 0)

\* APIC_VERSION register: version in bits 0-7, highest LVT entry in bits 16-23
apic_version(v) == v.lo % 256

apic_lvt_entries(v) == v.hi % 256

\* check_lapic and out (lines 416-457)
CheckLapic ==
    /\ pc = "check_lapic"
    /\ LET version == lapic_regs["APIC_VERSION"]
           phys == IF apic_config # NULL THEN firmware.lapic
                   ELSE IF cpu.has_apic THEN LAPIC_DEFAULT
                   ELSE W32(lapic)
           usable == /\ apic_version(version) \div 16 # 0
                     /\ apic_lvt_entries(version) >= 3
       IN  IF phys = ZERO32
           THEN \* goto out, before anything was mapped
                /\ call' = Call("apic_probe", 0, 0, -ENXIO, ZERO32, ZERO32)
                /\ apic_mp' = NULL
                /\ apic_config' = NULL
                /\ lapic' = 0
                /\ ncores' = 1
                /\ UNCHANGED <<pagemap, lapic_backend>>
           ELSE /\ pagemap' = Store(pagemap, page_of(LAPIC_WINDOW), page_of32(phys))
                /\ lapic_backend' = IF cpu.has_x2apic THEN "msr" ELSE lapic_backend
                /\ IF usable
                   THEN /\ call' = Call("apic_probe", 0, 0, 0, ZERO32, ZERO32)
                        /\ lapic' = LAPIC_WINDOW
                        /\ UNCHANGED <<apic_mp, apic_config, ncores>>
                   ELSE /\ call' = Call("apic_probe", 0, 0, -ENXIO, ZERO32, ZERO32)
                        /\ apic_mp' = NULL
                        /\ apic_config' = NULL
                        /\ lapic' = 0
                        /\ ncores' = 1
    /\ pc' = "probed"
    /\ UNCHANGED <<scan, apic_processors, boot_processor, ioapic, icr, irq_redirect,
                   initialized, firmware, cpu, ioapic_hw, lapic_regs, timer_ticks, if_flag,
                   pic_mask, ncalls, locals, visited, calib_read>>

\* apic_processors[boot_processor] is an element of the array and not NULL
boot_entry_valid == boot_processor < MAX_CORES /\ apic_processors[boot_processor] # NULL

\* the rest of apic_init (lines 476-483).  The kprintf reads
\* apic_processors[boot_processor]->id; when that is no processor entry the
\* read is outside the array or through NULL, and either faults or yields
\* some number to print.
ApicInitReturn ==
    /\ pc = "probed"
    /\ \/ /\ call.ret # 0 \/ boot_entry_valid
          /\ pc' = "idle"
          /\ call' = Call("apic_init", 0, 0, call.ret, ZERO32, ZERO32)
       \/ /\ call.ret = 0 /\ ~boot_entry_valid
          /\ \/ /\ pc' = "idle"
                /\ call' = Call("apic_init", 0, 0, 0, ZERO32, ZERO32)
             \/ /\ pc' = "fault"
                /\ UNCHANGED call
    /\ UNCHANGED <<scan, statics, firmware, cpu, ioapic_hw, other_hw, locals, ncalls, visited,
                   calib_read>>

Probe == ProbeEnter \/ Pass1Step \/ Pass1Done \/ Pass2Step \/ Pass2Done \/ CheckLapic
            \/ ApicInitReturn

\* ------------------------------------------------------------------------
\* The local APIC: lapic_reset, the timer, apic_calibration
\* ------------------------------------------------------------------------
\* lapic_write(addr, value), through either backend
lapic_write(regs, reg, value) == Store(regs, reg, value)

\* 0x10000: the mask bit of a local vector table entry
LVT_MASKED == W(1, 0)

\* 0x2007B: periodic mode, vector 123
LVT_TIMER_PERIODIC == W(2, 123)

\* a variant of the enable test that ignores the initialized flag
is_enabled_without_init(base, init) == base # 0

\* apic_is_enabled: return (lapic && initialized)
apic_is_enabled(base, init) == base # 0 /\ init # 0

\* the three writes that arm the timer: divide configuration 0xB, timer
\* entry periodic on vector 123, initial count n
arm_timer(regs, n) ==
    lapic_write(lapic_write(lapic_write(regs, "APIC_DCR", W(0, 11)),
                            "APIC_LVT_T", LVT_TIMER_PERIODIC),
                "APIC_ICR", n)

\* the register writes of lapic_reset (lines 234-250)
lapic_reset(regs, n) ==
    LET max_lvt == apic_lvt_entries(regs["APIC_VERSION"])
        r1 == lapic_write(lapic_write(regs, "APIC_SVR", W(0, 383)), "APIC_TPR", ZERO32)
        r2 == IF n # ZERO32 THEN arm_timer(r1, n)
              ELSE lapic_write(r1, "APIC_LVT_T", LVT_MASKED)
        r3 == IF max_lvt >= 4 THEN lapic_write(r2, "APIC_LVT_TSR", LVT_MASKED) ELSE r2
        r4 == IF max_lvt >= 5 THEN lapic_write(r3, "APIC_LVT_PMC", LVT_MASKED) ELSE r3
    IN  lapic_write(lapic_write(lapic_write(r4, "APIC_LINT0", W(0, 124)),
                                "APIC_LINT1", W(0, 125)),
                    "APIC_LVT_ER", W(0, 126))

\* int apic_disable_timer(void)
apic_disable_timer ==
    /\ pc = "idle"
    /\ IF ~apic_is_enabled(lapic, initialized)
       THEN /\ call' = Call("apic_disable_timer", 0, 0, -EINVAL, ZERO32, ZERO32)
            /\ UNCHANGED lapic_regs
       ELSE /\ lapic_regs' = lapic_write(lapic_regs, "APIC_LVT_T", LVT_MASKED)
            /\ call' = Call("apic_disable_timer", 0, 0, 0, ZERO32, ZERO32)
    /\ ncalls' = ncalls + 1
    /\ UNCHANGED <<scan, statics, firmware, cpu, ioapic_hw, pagemap, timer_ticks, if_flag,
                   pic_mask, pc, locals, visited, calib_read>>

\* int apic_enable_timer(void)
apic_enable_timer ==
    /\ pc = "idle"
    /\ IF apic_is_enabled(lapic, initialized) /\ icr # ZERO32
       THEN /\ lapic_regs' = arm_timer(lapic_regs, icr)
            /\ call' = Call("apic_enable_timer", 0, 0, 0, ZERO32, ZERO32)
       ELSE /\ call' = Call("apic_enable_timer", 0, 0, -EINVAL, ZERO32, ZERO32)
            /\ UNCHANGED lapic_regs
    /\ ncalls' = ncalls + 1
    /\ UNCHANGED <<scan, statics, firmware, cpu, ioapic_hw, pagemap, timer_ticks, if_flag,
                   pic_mask, pc, locals, visited, calib_read>>

\* void apic_eoi(void): if (lapic) lapic_write(APIC_EOI, 0)
apic_eoi ==
    /\ pc = "idle"
    /\ IF lapic # 0
       THEN lapic_regs' = lapic_write(lapic_regs, "APIC_EOI", ZERO32)
       ELSE UNCHANGED lapic_regs
    /\ call' = Call("apic_eoi", 0, 0, 0, ZERO32, ZERO32)
    /\ ncalls' = ncalls + 1
    /\ UNCHANGED <<scan, statics, firmware, cpu, ioapic_hw, pagemap, timer_ticks, if_flag,
                   pic_mask, pc, locals, visited, calib_read>>

\* uint32_t apic_cpu_id(void): lapic_read(APIC_ID) >> 24 once the controller
\* is present and initialized, else 0
apic_cpu_id ==
    /\ pc = "idle"
    /\ call' = Call("apic_cpu_id", 0, 0,
                    IF lapic # 0 /\ initialized # 0
                    THEN GetBits(lapic_regs["APIC_ID"].hi, 8, 8) ELSE 0,
                    ZERO32, ZERO32)
    /\ ncalls' = ncalls + 1
    /\ UNCHANGED <<scan, statics, firmware, cpu, ioapic_hw, other_hw, pc, locals, visited,
                   calib_read>>

\* a call of apic_is_enabled from outside the file
apic_is_enabled_call ==
    /\ pc = "idle"
    /\ call' = Call("apic_is_enabled", 0, 0,
                    IF apic_is_enabled(lapic, initialized) THEN 1 ELSE 0, ZERO32, ZERO32)
    /\ ncalls' = ncalls + 1
    /\ UNCHANGED <<scan, statics, firmware, cpu, ioapic_hw, other_hw, pc, locals, visited,
                   calib_read>>

\* irq_nested_disable(): interrupt delivery is off after the call, whatever
\* it was before; the call returns what it was
irq_nested_disable(f) == 0

\* irq_nested_enable(flags): delivery is switched on again if it was on when
\* flags was taken
irq_nested_enable(f, saved) == IF saved # 0 THEN 1 ELSE f

\* the highest value the clock tick counter takes outside the busy-waits of a
\* clock that keeps ticking
MaxTicks == 5

\* the timer interrupt handler advances the clock tick counter; it runs only
\* while interrupt delivery is enabled
Tick ==
    /\ pc # "fault"
    /\ if_flag = 1
    /\ timer_ticks < MaxTicks
    /\ timer_ticks' = timer_ticks + 1
    /\ UNCHANGED <<scan, statics, firmware, cpu, ioapic_hw, lapic_regs, pagemap, if_flag,
                   pic_mask, pc, locals, call, ncalls, visited, calib_read>>

\* a variant of the presence test of apic_calibration that never reports absence
calibration_absent_never(base) == FALSE

\* if (!lapic) return -ENXIO;
calibration_absent(base) == base = 0

\* apic_calibration up to the first busy-wait (lines 265-268)
CalibEnter ==
    /\ pc = "idle"
    /\ IF calibration_absent(lapic)
       THEN /\ call' = Call("apic_calibration", 0, 0, -ENXIO, ZERO32, ZERO32)
            /\ UNCHANGED <<pc, old>>
       ELSE /\ old' = timer_ticks
            /\ pc' = "calib_edge"
            /\ UNCHANGED call
    /\ ncalls' = ncalls + 1
    /\ UNCHANGED <<scan, statics, firmware, cpu, ioapic_hw, other_hw, addr, i, count, isa_bus,
                   ticks, flags, visited, calib_read>>

\* a variant of the end of the first busy-wait that leaves interrupt delivery
\* as it is
CalibEdgeNoDisable ==
    /\ pc = "calib_edge"
    /\ timer_ticks - old # 0
    /\ ticks' = timer_ticks
    /\ flags' = if_flag
    /\ pc' = "calib_program"
    /\ UNCHANGED <<scan, statics, firmware, cpu, ioapic_hw, other_hw, addr, i, count, isa_bus,
                   old, call, ncalls, visited, calib_read>>

\* the first busy-wait ends with the tick counter changed (line 271);
\* flags = irq_nested_disable() (line 274)
CalibEdge ==
    /\ pc = "calib_edge"
    /\ timer_ticks - old # 0
    /\ ticks' = timer_ticks
    /\ flags' = if_flag
    /\ if_flag' = irq_nested_disable(if_flag)
    /\ pc' = "calib_program"
    /\ UNCHANGED <<scan, statics, firmware, cpu, ioapic_hw, lapic_regs, pagemap, timer_ticks,
                   pic_mask, addr, i, count, isa_bus, old, call, ncalls, visited,
                   calib_read>>

\* the timer is started from 0xFFFFFFFF; irq_nested_enable(flags)
\* (lines 275-278)
CalibProgram ==
    /\ pc = "calib_program"
    /\ lapic_regs' = arm_timer(lapic_regs, MAX32)
    /\ if_flag' = irq_nested_enable(if_flag, flags)
    /\ pc' = "calib_wait"
    /\ UNCHANGED <<scan, statics, firmware, cpu, ioapic_hw, pagemap, timer_ticks, pic_mask,
                   locals, call, ncalls, visited, calib_read>>

\* the values the model lets the current-count register show when it is read
CcrValues == {MAX32, W(HALF - 1, HALF - 3), W(HALF - 1, HALF - 4), W(HALF - 2, 1), W(0, 2), ZERO32}

\* while (get_clock_tick() - ticks < 3) HALT;
wait_over(now, edge) == ~(now - edge < 3)

\* a variant of the calibration quotient that divides by two
calib_icr_half(c) == Div32(Sub32(MAX32, c), 2)

\* icr = (0xFFFFFFFFUL - lapic_read(APIC_CCR)) / 3
calib_icr(c) == Div32(Sub32(MAX32, c), 3)

\* the second busy-wait ends (line 281); icr is computed from the current
\* count (line 284); flags = irq_nested_disable() (line 286)
CalibMeasure ==
    /\ pc = "calib_wait"
    /\ wait_over(timer_ticks, ticks)
    /\ \E c \in CcrValues :
          /\ icr' = calib_icr(c)
          /\ calib_read' = [c |-> c, at |-> timer_ticks, edge |-> ticks]
    /\ flags' = if_flag
    /\ if_flag' = irq_nested_disable(if_flag)
    /\ pc' = "calib_reset"
    /\ UNCHANGED <<scan, apic_processors, boot_processor, apic_mp, apic_config, lapic, ioapic,
                   ncores, irq_redirect, initialized, lapic_backend, firmware, cpu,
                   ioapic_hw, lapic_regs, pagemap, timer_ticks, pic_mask, addr, i, count,
                   isa_bus, old, ticks, call, ncalls, visited>>

\* lapic_reset(); irq_nested_enable(flags) (lines 287-288)
CalibReset ==
    /\ pc = "calib_reset"
    /\ lapic_regs' = lapic_reset(lapic_regs, icr)
    /\ if_flag' = irq_nested_enable(if_flag, flags)
    /\ pc' = "calib_pic"
    /\ UNCHANGED <<scan, statics, firmware, cpu, ioapic_hw, pagemap, timer_ticks, pic_mask,
                   locals, call, ncalls, visited, calib_read>>

\* both PICs are masked (lines 291-292); flags = irq_nested_disable()
\* (line 296)
CalibPic ==
    /\ pc = "calib_pic"
    /\ pic_mask' = [master |-> 255, slave |-> 255]
    /\ flags' = if_flag
    /\ if_flag' = irq_nested_disable(if_flag)
    /\ pc' = "calib_handoff"
    /\ UNCHANGED <<scan, statics, firmware, cpu, ioapic_hw, lapic_regs, pagemap, timer_ticks,
                   addr, i, count, isa_bus, old, ticks, call, ncalls, visited, calib_read>>

\* ioapic_max_redirection_entry: (ioapic_read(IOAPIC_REG_VER) >> 16) & 0xFF
ioapic_max_redirection_entry(regs) == regs[IOAPIC_REG_VER].hi % 256

RECURSIVE handoff_regs(_, _, _, _, _, _)
\* for (i = k; i <= max_entry; i++) if (i != 2) ioapic_inton(i, apicid);
\* a call with i above 24 returns -EINVAL, which the loop ignores
handoff_regs(regs, redirect, k, max_entry, apicid, stack) ==
    IF k > max_entry THEN regs
    ELSE IF k = 2 \/ irq_too_high(k)
         THEN handoff_regs(regs, redirect, k + 1, max_entry, apicid, stack)
         ELSE handoff_regs(
                write_route(regs, route_off(redirect, k), inton_route(redirect, k, apicid, stack)),
                redirect, k + 1, max_entry, apicid, stack)

\* apic_processors[boot_processor]->id
boot_id == EntryAt(apic_processors[boot_processor]).id

\* lines 298-311 on a machine with an I/O APIC and a boot processor entry:
\* every line but 2 is switched on, line 2 is switched off.  All the calls
\* of one hand-off find the same stack content.
CalibHandoffIoapic(apicid) ==
    \E stack \in StackRoutes :
        LET max_entry == ioapic_max_redirection_entry(ioregs)
            on == handoff_regs(ioregs, irq_redirect, 0, max_entry, apicid, stack)
            off2 == route_off(irq_redirect, 2)
        IN  /\ ioregs' = write_route(on, off2, intoff_route(irq_redirect, 2, apicid, stack))
            /\ ioregsel' = IOAPIC_REG_TABLE + 1 + off2

\* the hand-over to the I/O APIC and the return (lines 298-311).  Without a
\* boot processor entry the read of its id is outside the array or through
\* NULL: it faults, or yields some id.
CalibHandoff ==
    /\ pc = "calib_handoff"
    /\ \/ /\ ioapic = NULL
          /\ UNCHANGED ioapic_hw
          /\ pc' = "idle"
       \/ /\ ioapic # NULL
          /\ boot_entry_valid
          /\ CalibHandoffIoapic(boot_id)
          /\ pc' = "idle"
       \/ /\ ioapic # NULL
          /\ ~boot_entry_valid
          /\ \E apicid \in {0, 255} : CalibHandoffIoapic(apicid)
          /\ pc' = "idle"
       \/ /\ ioapic # NULL
          /\ ~boot_entry_valid
          /\ UNCHANGED ioapic_hw
          /\ pc' = "fault"
    /\ IF pc' = "idle"
       THEN /\ initialized' = 1
            /\ if_flag' = irq_nested_enable(if_flag, flags)
            /\ call' = Call("apic_calibration", 0, 0, 0, ZERO32, ZERO32)
       ELSE UNCHANGED <<initialized, if_flag, call>>
    /\ UNCHANGED <<scan, apic_processors, boot_processor, apic_mp, apic_config, lapic, ioapic,
                   icr, ncores, irq_redirect, lapic_backend, firmware, cpu, lapic_regs,
                   pagemap, timer_ticks, pic_mask, locals, ncalls, visited, calib_read>>

\* ------------------------------------------------------------------------
\* search_apic, byte by byte
\* ------------------------------------------------------------------------
\* apic_probe's two calls: search_apic(0xF0000, 0x100000), then
\* search_apic(0x9F000, 0xA0000)
scan_base(w) == IF w = 1 THEN 983040 ELSE 651264

scan_limit(w) == IF w = 1 THEN 1048576 ELSE 655360

\* p & PAGE_MASK: PAGE_MASK keeps the page base, as in the page_map calls of
\* apic_probe
page_base(p) == (p \div PAGE_SIZE) * PAGE_SIZE

\* if (!(ptr & PAGE_MASK))
scan_maps_here(p) == page_base(p) = 0

\* page_unmap(p, 1)
page_unmap(map, p) == [q \in DOMAIN map \ {page_of(p)} |-> map[q]]

\* lines 208-213: what the page table and ptr_old are after them
scan_pagemap(map, p, p_old) ==
    IF scan_maps_here(p)
    THEN Store(IF p_old # 0 THEN page_unmap(map, p_old) ELSE map, page_of(p), page_of(p))
    ELSE map

scan_ptr_old(p, p_old) == IF scan_maps_here(p) THEN p ELSE p_old

\* for (ptr = base; ptr <= limit - sizeof(uint32_t); ptr++)
scan_in_window(p, w) == p <= scan_limit(w) - 4

\* tmp->signature == MP_FLT_SIGNATURE, with version <= 4 and features[0] == 0
scan_hit(p) == firmware.mp # NULL /\ p = firmware.mp

\* apic_probe calls search_apic for the first window
ScanEnter ==
    /\ pc = "boot"
    /\ window' = 1
    /\ ptr' = scan_base(1)
    /\ ptr_old' = 0
    /\ pc' = "scan"
    /\ UNCHANGED <<statics, firmware, cpu, ioapic_hw, other_hw, locals, call, ncalls,
                   visited, calib_read>>

\* one iteration of the loop (lines 205-219) whose read of the candidate
\* record succeeds
ScanStep ==
    /\ pc = "scan"
    /\ scan_in_window(ptr, window)
    /\ pagemap' = scan_pagemap(pagemap, ptr, ptr_old)
    /\ ptr_old' = scan_ptr_old(ptr, ptr_old)
    /\ IF scan_hit(ptr)
       THEN /\ apic_mp' = ptr
            /\ pc' = "scan_done"
            /\ UNCHANGED ptr
       ELSE /\ ptr' = ptr + 1
            /\ UNCHANGED <<apic_mp, pc>>
    /\ UNCHANGED <<apic_processors, boot_processor, apic_config, lapic, ioapic, icr, ncores,
                   irq_redirect, initialized, lapic_backend, firmware, cpu, ioapic_hw,
                   lapic_regs, timer_ticks, if_flag, pic_mask, locals, window, call,
                   ncalls, visited, calib_read>>

\* one iteration of the loop whose read of the candidate record, on a page
\* that search_apic has not mapped, takes a page fault
ScanFault ==
    /\ pc = "scan"
    /\ scan_in_window(ptr, window)
    /\ page_of(ptr) \notin DOMAIN scan_pagemap(pagemap, ptr, ptr_old)
    /\ pc' = "fault"
    /\ UNCHANGED <<statics, firmware, cpu, ioapic_hw, other_hw, locals, scan, call, ncalls,
                   visited, calib_read>>

\* the loop ends without a hit (lines 221-224); after the first window
\* apic_probe calls search_apic for the second
ScanEnd ==
    /\ pc = "scan"
    /\ ~scan_in_window(ptr, window)
    /\ pagemap' = IF ptr_old # 0 THEN page_unmap(pagemap, ptr_old) ELSE pagemap
    /\ ptr_old' = 0
    /\ IF window = 1
       THEN /\ window' = 2
            /\ ptr' = scan_base(2)
            /\ UNCHANGED <<apic_mp, pc>>
       ELSE /\ apic_mp' = NULL
            /\ pc' = "scan_done"
            /\ UNCHANGED <<ptr, window>>
    /\ UNCHANGED <<apic_processors, boot_processor, apic_config, lapic, ioapic, icr, ncores,
                   irq_redirect, initialized, lapic_backend, firmware, cpu, ioapic_hw,
                   lapic_regs, timer_ticks, if_flag, pic_mask, locals, call, ncalls,
                   visited, calib_read>>

\* ------------------------------------------------------------------------
\* Initial states
\* ------------------------------------------------------------------------
\* the longest entry stream of the firmware tables the model draws
MaxEntries == 4

\* address of the floating pointer record and of the configuration table
MP_ADDR == 983296

CONFIG_ADDR == 984064

ISA_NAME == <<"I", "S", "A", " ", " ", " ">>

PCI_NAME == <<"P", "C", "I", " ", " ", " ">>

\* 0xFEC00000, where the chipset puts the I/O APIC
IOAPIC_PHYS == W(65216, 0)

\* 0xFEC01000, a second I/O APIC one page further
IOAPIC_PHYS2 == W(65216, 4096)

\* the entries firmware tables are built from
EntryKinds ==
    { CpuEntry(0, 0), CpuEntry(1, 1), CpuEntry(2, 3),
      BusEntry(0, PCI_NAME), BusEntry(1, ISA_NAME),
      IoApicEntry(IOAPIC_PHYS), IoApicEntry(IOAPIC_PHYS2),
      IoIntEntry(1, 0, 2), IoIntEntry(3, 1, 5), IoIntEntry(1, 16, 7),
      UnknownEntry }

RECURSIVE SeqsUpTo(_, _)
SeqsUpTo(S, n) ==
    IF n = 0 THEN {<<>>}
    ELSE LET shorter == SeqsUpTo(S, n - 1)
         IN  shorter \cup {Append(t, e) : t \in shorter, e \in S}

Tables == SeqsUpTo(EntryKinds, MaxEntries)

\* the processor: cpuid's APIC and x2APIC bits and the APIC_VERSION register
\* (version in bits 0-7, highest LVT entry in bits 16-23)
Cpu(has_apic, has_x2apic, version) ==
    [has_apic |-> has_apic, has_x2apic |-> has_x2apic, version |-> version]

\* an integrated APIC with six LVT entries, no x2APIC
PlainCpu == Cpu(TRUE, FALSE, W(5, 20))

\* the processors the model draws: plain; x2APIC; four LVT entries; an LVT
\* that is too small; an external 82489DX; no APIC at all
Cpus == {PlainCpu, Cpu(TRUE, TRUE, W(5, 20)), Cpu(TRUE, FALSE, W(3, 17)),
         Cpu(TRUE, FALSE, W(2, 16)), Cpu(TRUE, FALSE, W(5, 4)),
         Cpu(FALSE, FALSE, W(5, 20))}

NoTable == Firmware(NULL, NULL, "PCMP", ZERO32, <<>>)

BadSignature == Firmware(MP_ADDR, CONFIG_ADDR, "XXXX", LAPIC_DEFAULT, <<CpuEntry(2, 3)>>)

GoodTable(t) == Firmware(MP_ADDR, CONFIG_ADDR, "PCMP", LAPIC_DEFAULT, t)

\* a table whose ISA override takes effect (the bus entry is the last entry
\* and the override names its position), the table of the scenario of C7, a
\* table without processor and without I/O APIC, a usable processor without
\* the boot flag, an unusable processor, and one processor too many
SmallTables ==
    { <<CpuEntry(2, 3), IoApicEntry(IOAPIC_PHYS), IoIntEntry(3, 1, 5), BusEntry(1, ISA_NAME)>>,
      <<CpuEntry(2, 3), BusEntry(1, ISA_NAME), IoApicEntry(IOAPIC_PHYS), IoIntEntry(1, 0, 2)>>,
      <<BusEntry(1, ISA_NAME), IoIntEntry(1, 0, 2)>>,
      <<CpuEntry(1, 1), IoApicEntry(IOAPIC_PHYS)>>,
      <<CpuEntry(0, 0), IoApicEntry(IOAPIC_PHYS)>>,
      <<CpuEntry(2, 3), CpuEntry(1, 1), IoApicEntry(IOAPIC_PHYS)>> }

\* a table whose header names no local APIC
NoLapicTable == Firmware(MP_ADDR, CONFIG_ADDR, "PCMP", ZERO32, <<CpuEntry(2, 3)>>)

\* the machines of the larger specification: every table on the plain
\* processor, and the small tables, no table and a damaged table on every
\* processor
Machines ==
    {<<GoodTable(t), PlainCpu>> : t \in Tables}
    \cup ({NoTable, BadSignature, NoLapicTable}
            \cup {GoodTable(t) : t \in SmallTables}) \X Cpus

\* the machines of the specifications that go on after apic_init: the small
\* tables on a plain and on an x2APIC processor; no table with and without
\* an APIC in the processor; local APICs that apic_probe rejects (an external
\* 82489DX, an LVT that is too small); a header without local APIC address
SmallMachines ==
    ({GoodTable(t) : t \in SmallTables} \X {PlainCpu, Cpu(TRUE, TRUE, W(3, 17))})
    \cup {<<NoTable, PlainCpu>>, <<NoTable, Cpu(FALSE, FALSE, W(5, 20))>>,
          <<NoTable, Cpu(TRUE, FALSE, W(5, 4))>>,
          <<GoodTable(<<CpuEntry(2, 3), IoApicEntry(IOAPIC_PHYS)>>), Cpu(TRUE, TRUE, W(2, 16))>>,
          <<NoLapicTable, PlainCpu>>}

\* APIC_ID of the processor that boots: id 2 in bits 24-31
BOOT_APIC_ID == W(512, 0)

\* the file-scope initializers (lines 55-64, 82, 104) and the machine at entry
\* to apic_init, for a machine m and an I/O APIC version register ver
InitWith(m, ver) ==
    /\ apic_processors = [k \in 0..(MAX_CORES - 1) |-> NULL]
    /\ boot_processor = MAX_CORES
    /\ apic_mp = NULL
    /\ apic_config = NULL
    /\ lapic = 0
    /\ ioapic = NULL
    /\ icr = ZERO32
    /\ ncores = 1
    /\ irq_redirect = IdentityRedirect
    /\ initialized = 0
    /\ lapic_backend = "default"
    /\ firmware = m[1]
    /\ cpu = m[2]
    /\ ioregsel = 0
    /\ ioregs = [r \in {IOAPIC_REG_VER} |-> ver]
    /\ lapic_regs = [r \in {"APIC_VERSION", "APIC_ID"} |->
                        IF r = "APIC_VERSION" THEN m[2].version ELSE BOOT_APIC_ID]
    /\ pagemap = [p \in {} |-> 0]
    /\ timer_ticks = 0
    /\ if_flag = 1
    /\ pic_mask = [master |-> 0, slave |-> 0]
    /\ pc = "boot"
    /\ addr = 0
    /\ i = 0
    /\ count = 0
    /\ isa_bus = -1
    /\ old = 0
    /\ ticks = 0
    /\ flags = 0
    /\ ptr = 0
    /\ ptr_old = 0
    /\ window = 0
    /\ call = NoCall
    /\ ncalls = 0
    /\ visited = [p \in {1, 2} |-> {}]
    /\ calib_read = [c |-> ZERO32, at |-> 0, edge |-> 0]

\* I/O APIC version register of a controller with 24 redirection entries
IOAPIC_VER_24 == W(23, 17)

Init == \E m \in Machines : InitWith(m, IOAPIC_VER_24)

Next == Probe

Spec == Init /\ [][Next]_vars

\* ------------------------------------------------------------------------
\* The I/O APIC interface after apic_init
\* ------------------------------------------------------------------------
\* how many calls of the interface a behaviour makes
MaxCalls == 2

\* the interrupt lines and destination ids the calls are made with
CallIrqs == {0, 1, 24, 25, 255}

CallIds == {2, 255}

IoapicCalls ==
    /\ ncalls < MaxCalls
    /\ \E irq \in CallIrqs, apicid \in CallIds :
          \/ ioapic_inton(irq, apicid)
          \/ ioapic_intoff(irq, apicid)

InitIoapic == \E m \in SmallMachines : InitWith(m, IOAPIC_VER_24)

NextIoapic == Probe \/ IoapicCalls

SpecIoapic == InitIoapic /\ [][NextIoapic]_vars

\* ------------------------------------------------------------------------
\* The local APIC timer after apic_init
\* ------------------------------------------------------------------------
\* version registers of I/O APICs with 24 and with 4 redirection entries
IoapicVersions == {IOAPIC_VER_24, W(3, 17)}

TimerCalls ==
    /\ ncalls < MaxCalls
    /\ \/ apic_enable_timer
       \/ apic_disable_timer
       \/ apic_eoi
       \/ apic_cpu_id
       \/ apic_is_enabled_call
       \/ CalibEnter

InitTimer == \E m \in SmallMachines, ver \in IoapicVersions : InitWith(m, ver)

NextTimer == Probe \/ Tick \/ TimerCalls \/ CalibEdge \/ CalibProgram \/ CalibMeasure
                \/ CalibReset \/ CalibPic \/ CalibHandoff

SpecTimer == InitTimer /\ [][NextTimer]_vars

\* ------------------------------------------------------------------------
\* apic_calibration with a clock that keeps ticking
\* ------------------------------------------------------------------------
\* the clock tick counter advances past MaxTicks as far as a busy-wait of
\* apic_calibration still waits for
TickWaited ==
    /\ if_flag = 1
    /\ timer_ticks >= MaxTicks
    /\ \/ pc = "calib_edge" /\ timer_ticks = old
       \/ pc = "calib_wait" /\ timer_ticks - ticks < 3
    /\ timer_ticks' = timer_ticks + 1
    /\ UNCHANGED <<scan, statics, firmware, cpu, ioapic_hw, lapic_regs, pagemap, if_flag,
                   pic_mask, pc, locals, call, ncalls, visited, calib_read>>

LiveCalls == ncalls < MaxCalls /\ CalibEnter

NextLive == Probe \/ Tick \/ TickWaited \/ LiveCalls \/ CalibEdge \/ CalibProgram
               \/ CalibMeasure \/ CalibReset \/ CalibPic \/ CalibHandoff

\* the timer interrupt keeps coming while delivery is enabled, and the
\* processor keeps executing apic_calibration
SpecLive ==
    /\ InitTimer
    /\ [][NextLive]_vars
    /\ WF_vars(Tick) /\ WF_vars(TickWaited)
    /\ WF_vars(CalibEdge) /\ WF_vars(CalibProgram) /\ WF_vars(CalibMeasure)
    /\ WF_vars(CalibReset) /\ WF_vars(CalibPic) /\ WF_vars(CalibHandoff)

\* ------------------------------------------------------------------------
\* The scan for the floating pointer record
\* ------------------------------------------------------------------------
\* no record; a record in the first window, 256 bytes into its first page; a
\* record in the first byte of the second window
ScanMachines ==
    {<<NoTable, PlainCpu>>, <<GoodTable(<<CpuEntry(2, 3)>>), PlainCpu>>,
     <<Firmware(scan_base(2), CONFIG_ADDR, "PCMP", LAPIC_DEFAULT, <<CpuEntry(2, 3)>>), PlainCpu>>}

InitScan == \E m \in ScanMachines : InitWith(m, IOAPIC_VER_24)

NextScan == ScanEnter \/ ScanStep \/ ScanFault \/ ScanEnd

SpecScan == InitScan /\ [][NextScan]_vars

\* ------------------------------------------------------------------------
\* Properties of apic_probe
\* ------------------------------------------------------------------------
\* apic_probe has left its two loops over a table it accepted
Parsed ==
    /\ pc \in {"check_lapic", "probed", "idle", "fault"}
    /\ firmware.mp # NULL
    /\ firmware.signature = "PCMP"

\* the end of the entry stream
StreamEnd == first_entry(firmware.config) + StreamLen(firmware.entries)

\* C4: each of the two passes of apic_probe visits exactly entry_count
\* distinct entries, and ends with its scan offset at the aligned end of the
\* header plus the sum of the declared lengths of the entries.
C4_PassesCoverStream ==
    /\ (pc = "pass1" /\ i = entry_count) =>
          /\ Cardinality(visited[1]) = entry_count
          /\ addr = StreamEnd
    /\ (pc = "pass2" /\ i = entry_count) =>
          /\ Cardinality(visited[2]) = entry_count
          /\ addr = StreamEnd

\* the bus ids of the bus entries named ISA
IsaBusIds == {firmware.entries[k].bus_id :
                k \in {x \in 1..entry_count : /\ firmware.entries[x].type = 1
                                              /\ is_isa(firmware.entries[x].name)}}

\* the positions of the I/O interrupt entries sourced from the ISA bus with
\* source irq n
IsaOverrides(n) ==
    {k \in 1..entry_count : /\ firmware.entries[k].type = 3
                            /\ firmware.entries[k].src_bus \in IsaBusIds
                            /\ firmware.entries[k].src_irq = n}

Max(S) == CHOOSE x \in S : \A y \in S : y <= x

\* what C5 says slot n of irq_redirect holds after parsing
ExpectedRedirect(n) ==
    IF IsaOverrides(n) = {} THEN n
    ELSE firmware.entries[Max(IsaOverrides(n))].dest_intin

\* C5: after parsing, irq_redirect[n] is the destination pin of the last
\* ISA-sourced I/O interrupt entry with source irq n, and n when there is
\* none; entries sourced from another bus change nothing.
C5_RedirectFollowsIsaOverrides ==
    Parsed => \A n \in 0..15 : irq_redirect[n] = ExpectedRedirect(n)

\* the number of processor entries in the stream
NumCpus == Cardinality({k \in 1..entry_count : firmware.entries[k].type = 0})

\* C6: when the table holds more processor entries than MAX_CORES, apic_probe
\* returns with every registry slot empty, the boot processor index unset, no
\* external controller and a core count of 1.
C6_OverflowDiscardsAll ==
    (Parsed /\ pc # "check_lapic" /\ NumCpus > MAX_CORES) =>
        /\ \A k \in 0..(MAX_CORES - 1) : apic_processors[k] = NULL
        /\ boot_processor = MAX_CORES
        /\ ioapic = NULL
        /\ ncores = 1

\* registry slot k holds a processor entry with the boot flag
SlotHasBootFlag(k) ==
    /\ apic_processors[k] # NULL
    /\ (EntryAt(apic_processors[k]).cpu_flags \div 2) % 2 = 1

\* the first half of C7
BootIndexNamesFlaggedEntry ==
    Parsed =>
        /\ boot_processor < MAX_CORES =>
              /\ SlotHasBootFlag(boot_processor)
              /\ EntryAt(apic_processors[boot_processor]).cpu_flags % 2 = 1
        /\ boot_processor = MAX_CORES <=>
              ~ \E k \in 0..(MAX_CORES - 1) : SlotHasBootFlag(k)

\* the table of the scenario of C7: a usable boot processor, the ISA bus, an
\* I/O APIC and the override (bus = ISA, irq 0, pin 2)
ScenarioTable ==
    <<CpuEntry(2, 3), BusEntry(1, ISA_NAME), IoApicEntry(IOAPIC_PHYS), IoIntEntry(1, 0, 2)>>

\* the second half of C7
ScenarioResult ==
    (Parsed /\ firmware.entries = ScenarioTable) =>
        /\ apic_processors[0] # NULL
        /\ boot_processor = 0
        /\ irq_redirect[0] = 2
        /\ \A n \in 1..15 : irq_redirect[n] = n

\* C7: the boot processor index names the stored entry with the boot flag and
\* is MAX_CORES exactly when no stored entry has it; the scenario table gives
\* slot 0 populated, boot index 0, irq_redirect[0] = 2 and identity elsewhere.
C7_BootIndexAndScenario == BootIndexNamesFlaggedEntry /\ ScenarioResult

\* the registry slots the second loop assigns to processor entries with the
\* usable flag clear are empty, and no slot refers to such an entry
UnusableSlotsEmpty ==
    Parsed =>
        /\ \A k \in 1..entry_count :
              (/\ firmware.entries[k].type = 0
               /\ firmware.entries[k].cpu_flags % 2 = 0
               /\ k - 1 < MAX_CORES) => apic_processors[k - 1] = NULL
        /\ \A s \in 0..(MAX_CORES - 1) :
              apic_processors[s] # NULL => EntryAt(apic_processors[s]).cpu_flags % 2 = 1

\* C8: after parsing, the registry slot of every processor entry whose usable
\* flag is clear is empty, and no later step changes the registry.
C8_UnusableSlotsStayEmpty ==
    /\ []UnusableSlotsEmpty
    /\ [][Parsed => apic_processors' = apic_processors]_vars

\* C8 witness: parsing is over, the first entry is an unusable processor
\* followed by further entries, and slot 0 is empty
C8_Witness ==
    /\ Parsed
    /\ pc = "idle"
    /\ entry_count >= 2
    /\ firmware.entries[1] = CpuEntry(0, 0)
    /\ apic_processors[0] = NULL

\* ------------------------------------------------------------------------
\* Properties of ioapic_inton and ioapic_intoff
\* ------------------------------------------------------------------------
\* this step is a returning call of ioapic_inton or ioapic_intoff
IoapicCallReturns ==
    /\ ncalls' = ncalls + 1
    /\ call'.op \in {"ioapic_inton", "ioapic_intoff"}

\* C1: a call of ioapic_inton or ioapic_intoff with a line above 24 returns
\* -EINVAL and leaves the register-select register and every redirection
\* register of the controller as they were.
C1_HighLineRejected ==
    [][(IoapicCallReturns /\ call'.a1 > 24) =>
          /\ call'.ret = -EINVAL
          /\ ioregsel' = ioregsel
          /\ ioregs' = ioregs]_vars

\* C1 witness: line 25 was rejected on a discovered controller one of whose
\* redirection entries an earlier call had programmed
C1_Witness ==
    /\ call.op \in {"ioapic_inton", "ioapic_intoff"}
    /\ call.a1 = 25
    /\ call.ret = -EINVAL
    /\ ioapic # NULL
    /\ Cardinality(DOMAIN ioregs) > 1

\* the content of register reg of the controller; a redirection register
\* nothing has written yet holds its reset value (masked, all else zero)
ioreg(reg) ==
    IF reg \in DOMAIN ioregs THEN ioregs[reg]
    ELSE IF reg >= IOAPIC_REG_TABLE /\ reg % 2 = 0 THEN W(1, 0) ELSE ZERO32

\* the redirection entry line is routed to: irq_redirect[line] below 16, the
\* line itself from 16 on
EntryOfLine(line) == IF line < 16 THEN irq_redirect[line] ELSE line

\* C2: after ioapic_inton(line, id) returned 0 on the discovered controller,
\* the entry of the line reads back with mask 0, vector 0x20 + line and
\* destination id.
C2_IntonReadsBack ==
    (call.op = "ioapic_inton" /\ call.ret = 0 /\ ioapic # NULL) =>
        LET t == EntryOfLine(call.a1)
            low == ioreg(IOAPIC_REG_TABLE + 2 * t)
            high == ioreg(IOAPIC_REG_TABLE + 2 * t + 1)
        IN  /\ get_mask(low) = 0
            /\ get_vector(low) = 32 + call.a1
            /\ get_physical_dest(high) = call.a2

\* C2 witness: line 1, which the table redirects to pin 5, was switched on
\* for destination 255
C2_Witness ==
    /\ call.op = "ioapic_inton"
    /\ call.ret = 0
    /\ ioapic # NULL
    /\ call.a1 = 1
    /\ irq_redirect[1] = 5
    /\ call.a2 = 255

\* C3: a call of ioapic_intoff that repeats the previous one (same line, same
\* destination id) writes the same two 32-bit words as the previous one.
C3_IntoffRepeatsWords ==
    [][(/\ IoapicCallReturns
        /\ ioapic # NULL
        /\ call.op = "ioapic_intoff" /\ call'.op = "ioapic_intoff"
        /\ call.ret = 0 /\ call'.ret = 0
        /\ call'.a1 = call.a1 /\ call'.a2 = call.a2) =>
          /\ call'.lo = call.lo
          /\ call'.hi = call.hi]_vars

\* ------------------------------------------------------------------------
\* Properties of the timer interface and of apic_calibration
\* ------------------------------------------------------------------------
\* this step is a returning call of op
Returns(op) == ncalls' = ncalls + 1 /\ call'.op = op

\* C9: with the local APIC absent or calibration not yet completed,
\* apic_enable_timer and apic_disable_timer return -EINVAL and write no
\* register; so does apic_enable_timer when icr is zero; in every other
\* state each returns 0, apic_disable_timer having masked the timer entry and
\* apic_enable_timer having armed it periodic with initial count icr.
C9_TimerCallsNeedCalibration ==
    [][/\ (/\ Returns("apic_enable_timer") \/ Returns("apic_disable_timer")
           /\ lapic = 0 \/ initialized = 0) =>
              /\ call'.ret = -EINVAL
              /\ lapic_regs' = lapic_regs
       /\ (Returns("apic_enable_timer") /\ icr = ZERO32) =>
              /\ call'.ret = -EINVAL
              /\ lapic_regs' = lapic_regs
       /\ (Returns("apic_disable_timer") /\ lapic # 0 /\ initialized # 0) =>
              /\ call'.ret = 0
              /\ lapic_regs'["APIC_LVT_T"].hi % 2 = 1
       /\ (Returns("apic_enable_timer") /\ lapic # 0 /\ initialized # 0 /\ icr # ZERO32) =>
              /\ call'.ret = 0
              /\ lapic_regs'["APIC_LVT_T"].hi % 2 = 0
              /\ (lapic_regs'["APIC_LVT_T"].hi \div 2) % 2 = 1
              /\ lapic_regs'["APIC_ICR"] = icr]_vars

\* C9 witness: apic_enable_timer failed after a calibration that computed 0,
\* on the timer lapic_reset had masked
C9_Witness ==
    /\ call.op = "apic_enable_timer"
    /\ call.ret = -EINVAL
    /\ lapic # 0
    /\ initialized = 1
    /\ icr = ZERO32
    /\ lapic_regs["APIC_LVT_T"] = LVT_MASKED

\* q = floor(d / 3) for 32-bit d, by 3 * q + r = d with r in 0..2
IsThirdOf(q, d) ==
    \E r \in 0..2 :
        LET low == 3 * q.lo + r
        IN  /\ low % HALF = d.lo
            /\ 3 * q.hi + low \div HALF = d.hi

\* 0xFFFFFFFF - c, half by half (no borrow can occur)
CountedDown(c) == W(HALF - 1 - c.hi, HALF - 1 - c.lo)

\* C10: when apic_calibration has returned 0, icr is
\* floor((0xFFFFFFFF - c) / 3) for the current count c it read, and it read c
\* when at least three clock ticks had passed since the edge; a later
\* apic_enable_timer returns 0 exactly when that value is not zero.
C10_IcrIsThirdOfCount ==
    /\ [](call.op = "apic_calibration" /\ call.ret = 0 =>
            /\ IsThirdOf(icr, CountedDown(calib_read.c))
            /\ calib_read.at - calib_read.edge >= 3)
    /\ [][(Returns("apic_enable_timer") /\ initialized = 1) =>
            (call'.ret = 0 <=> ~IsThirdOf(ZERO32, CountedDown(calib_read.c)))]_vars

\* C10 witness: apic_enable_timer succeeded after a calibration that read
\* 0xFFFFFFFC, three counts below the start value, and so computed icr = 1
C10_Witness ==
    /\ call.op = "apic_enable_timer"
    /\ call.ret = 0
    /\ calib_read.c = W(HALF - 1, HALF - 4)
    /\ icr = W(0, 1)
    /\ lapic_regs["APIC_ICR"] = W(0, 1)

\* ------------------------------------------------------------------------
\* Properties of a machine without local APIC
\* ------------------------------------------------------------------------
\* apic_probe keeps the table: it was found, carries the signature and names
\* no more processors than MAX_CORES
TableAccepted ==
    /\ firmware.mp # NULL
    /\ firmware.config # NULL
    /\ firmware.signature = "PCMP"
    /\ NumCpus <= MAX_CORES

\* discovery ends with no local controller: no address from the table header
\* or from the processor, or a controller whose version register is rejected
NoLocalController ==
    \/ TableAccepted /\ firmware.lapic = ZERO32
    \/ ~TableAccepted /\ ~cpu.has_apic
    \/ apic_version(cpu.version) \div 16 = 0
    \/ apic_lvt_entries(cpu.version) < 3

\* apic_probe has returned
ProbeReturned == pc \in {"probed", "idle"}

\* what each entry point answers when there is no local controller
AbsentAnswer(c) ==
    CASE c.op = "apic_calibration" -> c.ret = -ENXIO
      [] c.op = "apic_enable_timer" -> c.ret = -EINVAL
      [] c.op = "apic_disable_timer" -> c.ret = -EINVAL
      [] c.op = "apic_is_enabled" -> c.ret = 0
      [] c.op = "apic_cpu_id" -> c.ret = 0
      [] c.op = "apic_eoi" -> TRUE
      [] OTHER -> FALSE

\* C11: when discovery ends with no local controller apic_probe returns
\* -ENXIO with lapic = 0; lapic then stays 0, and every call of an entry
\* point answers "absent" and writes no register, no port and no flag.
C11_AbsentControllerStaysAbsent ==
    [][/\ (ProbeReturned' /\ NoLocalController) => lapic' = 0
       /\ (pc' = "probed" /\ NoLocalController) => call'.ret = -ENXIO
       /\ (ProbeReturned /\ lapic = 0) =>
             /\ lapic' = 0
             /\ initialized' = initialized
             /\ <<lapic_regs, pic_mask, ioapic_hw, icr>>' = <<lapic_regs, pic_mask, ioapic_hw, icr>>
             /\ pc' \in {"probed", "idle"}
             /\ ncalls' = ncalls + 1 => AbsentAnswer(call')]_vars

\* C11 witness: on a machine without local controller a second call has
\* returned, and it was a calibration
C11_Witness ==
    /\ pc = "idle"
    /\ NoLocalController
    /\ lapic = 0
    /\ ncalls = 2
    /\ call.op = "apic_calibration"
    /\ call.ret = -ENXIO

\* ------------------------------------------------------------------------
\* Properties of the hand-over to the I/O APIC
\* ------------------------------------------------------------------------
\* apic_calibration has just returned 0 on a machine with an I/O APIC and a
\* boot processor entry
HandedOver ==
    /\ pc = "idle"
    /\ call.op = "apic_calibration"
    /\ call.ret = 0
    /\ ioapic # NULL
    /\ boot_entry_valid

\* C12: when apic_calibration has completed with an I/O APIC whose highest
\* redirection entry is M, every entry 0..M but entry 2 is unmasked and
\* targets the boot processor's id, and entry 2 is masked.
C12_HandoffUnmasksAllButTwo ==
    HandedOver =>
        \A t \in 0..ioapic_max_redirection_entry(ioregs) :
            LET low == ioreg(IOAPIC_REG_TABLE + 2 * t)
                high == ioreg(IOAPIC_REG_TABLE + 2 * t + 1)
            IN  IF t = 2 THEN get_mask(low) = 1
                ELSE get_mask(low) = 0 /\ get_physical_dest(high) = boot_id

\* ------------------------------------------------------------------------
\* Properties of the boot order
\* ------------------------------------------------------------------------
\* register reg of the local APIC has been written, and last with value v
LapicHolds(reg, v) == reg \in DOMAIN lapic_regs /\ lapic_regs[reg] = v

\* the first apic_calibration is at the start of its measurement
FirstCalibrationStarts == pc = "calib_edge" /\ initialized = 0

\* C13: when the first apic_calibration starts measuring, lapic_reset has
\* already run with icr = 0: the spurious-vector register holds 0x17F and the
\* timer entry is masked.
C13_ResetBeforeCalibration ==
    FirstCalibrationStarts =>
        /\ icr = ZERO32
        /\ LapicHolds("APIC_SVR", W(0, 383))
        /\ LapicHolds("APIC_LVT_T", LVT_MASKED)

\* ------------------------------------------------------------------------
\* Properties of the critical sections of apic_calibration
\* ------------------------------------------------------------------------
\* the divide-configuration, timer entry and initial-count registers
TimerRegs == {"APIC_DCR", "APIC_LVT_T", "APIC_ICR"}

\* this step writes a new value to one of the timer's registers
TimerRegsChange ==
    \E r \in TimerRegs :
        /\ r \in DOMAIN lapic_regs'
        /\ r \notin DOMAIN lapic_regs \/ lapic_regs'[r] # lapic_regs[r]

\* apic_calibration is in one of its busy-waits or between two of its
\* critical sections
OutsideSections == pc \in {"calib_edge", "calib_wait", "calib_pic"}

\* C14: apic_calibration and the lapic_reset it calls write the timer's
\* registers only with interrupt delivery disabled, and delivery is enabled
\* again, as it was on entry, in the busy-waits, between the sections and
\* on return.
C14_TimerWritesWithInterruptsOff ==
    /\ [][(pc \notin {"idle", "fault"} /\ TimerRegsChange) => if_flag = 0]_vars
    /\ [](OutsideSections => if_flag = 1)
    /\ []((pc = "idle" /\ call.op = "apic_calibration") => if_flag = 1)

\* C14 witness: both sections have run (the timer was started from
\* 0xFFFFFFFF, then lapic_reset connected LINT0) and delivery is enabled again
C14_Witness ==
    /\ pc = "calib_pic"
    /\ LapicHolds("APIC_LINT0", W(0, 124))
    /\ LapicHolds("APIC_DCR", W(0, 11))
    /\ if_flag = 1

\* ------------------------------------------------------------------------
\* Properties of the busy-waits of apic_calibration
\* ------------------------------------------------------------------------
\* apic_calibration has returned 0 with the controller initialized
CalibrationDone ==
    /\ pc = "idle"
    /\ initialized = 1
    /\ call.op = "apic_calibration"
    /\ call.ret = 0

\* this step sets initialized, masks the legacy controller or returns from
\* apic_calibration
CalibrationResult ==
    \/ initialized' # initialized
    \/ pic_mask' # pic_mask
    \/ pc \in {"calib_edge", "calib_program", "calib_wait", "calib_reset", "calib_pic",
               "calib_handoff"} /\ pc' = "idle"

\* C15: with a local controller and a tick counter that keeps advancing, a
\* calibration that has started ends with initialized = 1 and return value
\* 0; and nothing of that happens before the counter has advanced by one
\* tick and then by three more.
C15_CalibrationEndsWithTicks ==
    /\ (pc = "calib_edge") ~> CalibrationDone
    /\ [][CalibrationResult => timer_ticks >= old + 4]_vars

\* a calibration that has started on a machine whose hand-over reads no
\* missing boot processor entry ends with initialized = 1 and return value 0
CalibrationEndsWithBootEntry ==
    (pc = "calib_edge" /\ (ioapic = NULL \/ boot_entry_valid)) ~> CalibrationDone

\* ------------------------------------------------------------------------
\* Properties of tables with several I/O APIC entries
\* ------------------------------------------------------------------------
\* the positions of the external-controller (type 2) entries in the stream
IoApicPositions == {k \in 1..entry_count : firmware.entries[k].type = 2}

\* the first of them
FirstIoApic == firmware.entries[CHOOSE k \in IoApicPositions : \A j \in IoApicPositions : k <= j]

\* C16: after parsing a table with external-controller entries the page
\* behind the fixed window is that of the first such entry, and a later
\* such entry changes neither the recorded controller nor the mapping.
C16_FirstIoApicWins ==
    (Parsed /\ IoApicPositions # {}) =>
        /\ ioapic = IOAPIC_WINDOW
        /\ pagemap[page_of(IOAPIC_WINDOW)] = page_of32(FirstIoApic.addr)

\* ------------------------------------------------------------------------
\* Properties of the processor registry
\* ------------------------------------------------------------------------
\* the number of processor entries that precede entry k in the stream
CpusBefore(k) == Cardinality({j \in 1..(k - 1) : firmware.entries[j].type = 0})

\* C17: after parsing, a processor entry preceded by n processor entries,
\* n < MAX_CORES, is recorded in registry slot n (its address when it is
\* usable, NULL when it is not), whatever other entries precede it.
C17_CpuStoredAtNextFreeIndex ==
    Parsed =>
        \A k \in 1..entry_count :
            (firmware.entries[k].type = 0 /\ CpusBefore(k) < MAX_CORES) =>
                apic_processors[CpusBefore(k)] =
                    IF firmware.entries[k].cpu_flags % 2 = 1 THEN EntryStart(k) ELSE NULL

\* ------------------------------------------------------------------------
\* Properties of search_apic
\* ------------------------------------------------------------------------
\* the pages of the two windows
ScanPages == {page_of(scan_base(1)) + k : k \in 0..15} \cup {page_of(scan_base(2))}

\* the pages of the windows that are mapped
MappedScanPages == DOMAIN pagemap \cap ScanPages

\* this step reads the candidate record at ptr
ScanReads == pc = "scan" /\ scan_in_window(ptr, window) /\ pc' # "fault"

\* C18: the page of the scan offset is mapped when the candidate record is
\* read; entering a new page unmaps the page mapped before; never more than
\* one page of the windows is mapped; and "not found" leaves none mapped.
C18_ScanMapsOnePage ==
    /\ [][ScanReads => page_of(ptr) \in DOMAIN pagemap']_vars
    /\ [][(ScanReads /\ ptr % PAGE_SIZE = 0 /\ ptr # scan_base(window)) =>
              page_of(ptr - 1) \notin DOMAIN pagemap']_vars
    /\ [](Cardinality(MappedScanPages) <= 1)
    /\ []((pc = "scan_done" /\ apic_mp = NULL) => MappedScanPages = {})

\* ------------------------------------------------------------------------
\* Properties of the reads of the boot processor entry
\* ------------------------------------------------------------------------
\* the next step reads apic_processors[boot_processor]->id: apic_init after a
\* successful apic_probe (line 481), or the hand-over of apic_calibration on
\* a machine with an I/O APIC (lines 304 and 306)
ReadsBootEntry ==
    \/ pc = "probed" /\ call.ret = 0
    \/ pc = "calib_handoff" /\ ioapic # NULL

\* C19: whenever apic_init or apic_calibration reads
\* apic_processors[boot_processor]->id, boot_processor is below MAX_CORES and
\* the slot holds a processor entry.
C19_BootEntryExistsWhenRead == ReadsBootEntry => boot_entry_valid

\* ------------------------------------------------------------------------
\* Properties of the stores to irq_redirect
\* ------------------------------------------------------------------------
\* the next step of the second loop stores to irq_redirect: the entry at addr
\* is an I/O-interrupt entry whose source bus is the recorded ISA bus
StoresRedirect ==
    /\ pc = "pass2"
    /\ i < entry_count
    /\ EntryAt(addr).type = 3
    /\ EntryAt(addr).src_bus = isa_bus

\* C20: every store apic_probe makes to irq_redirect uses an index in 0..15.
C20_RedirectIndexInTable == StoresRedirect => EntryAt(addr).src_irq \in 0..15

====
